---- MODULE Spec2Model ----
(***************************************************************************)
(* HR agent (Dinamn/HR_Agent, KAUST_Agent/app): the relational store with  *)
(* its leave / leave-credit / audit / users tables, the identity-bound     *)
(* tools of build_graph_for, and the plan/act loop of agent_respond.       *)
(***************************************************************************)
EXTENDS Integers, Sequences, FiniteSets, TLC

VARIABLES db, last, procs, store, run, reply, vector_store

vars == <<db, last, procs, store, run, reply, vector_store>>
concvars == <<procs>>
agentvars == <<store, run, reply, vector_store>>

(***************************************************************************)
(* Bounds of the model.                                                    *)
(***************************************************************************)
MaxDay == 3
MaxAudit == 2
NumProcs == 2
MaxRequests == 2

Users == {1, 2}
Dates == 1..MaxDay
NoDate == 0
ACTIVE_STATUSES == {"PENDING", "APPROVED"}
ALLOWED_PROFILE_FIELDS ==
  {"address", "contact_phone", "email", "employment_title", "org_unit"}
Columns == ALLOWED_PROFILE_FIELDS \cup {"base_salary"}
Values == {"v0", "v1"}

Max(a, b) == IF a >= b THEN a ELSE b

(***************************************************************************)
(* Tables.  db.leaves is the leaves table, a row's id is its position;     *)
(* db.credit[u] is the current-year leave_credits row of u (has = FALSE:   *)
(* no such row); db.audit is audit_log; db.users[u] is the users row of u, *)
(* with its username and its profile columns.                              *)
(***************************************************************************)
Ids(D) == 1..Len(D.leaves)

Outcome(D, ok, err, reads) == [db |-> D, ok |-> ok, err |-> err, reads |-> reads]

(***************************************************************************)
(* tools.py: schemas and SQL predicates.                                   *)
(***************************************************************************)
\* mutant: the day count without the inclusive + 1
LeaveRequest_days_Exclusive(req) == req.end_date - req.start_date

\* LeaveRequest.days: (end_date - start_date).days + 1
LeaveRequest_days(req) == (req.end_date - req.start_date) + 1

\* mutant: the ranges compared with their last day excluded
DateRangesOverlap_Exclusive(s1, e1, s2, e2) == s1 < e2 /\ s2 < e1

\* daterange(start_date, end_date, '[]') && daterange(:s, :e, '[]')
DateRangesOverlap(s1, e1, s2, e2) == s1 <= e2 /\ s2 <= e1

\* WHERE user_id = :uid AND year = <current year>   (leave_credits)
CreditKeyMatch(u, uid) == u = uid

\* mutant: the leave looked up by id alone
LeaveKeyMatch_NoOwner(row, id, lid, uid) == id = lid

\* WHERE id = :lid AND user_id = :uid   (leaves, in cancel_leave)
LeaveKeyMatch(row, id, lid, uid) == id = lid /\ row.user_id = uid

\* mutant: the overlap check without the status filter
OverlapMatch_AnyStatus(row, uid, s, e) ==
  /\ row.user_id = uid
  /\ DateRangesOverlap(row.start_date, row.end_date, s, e)

\* WHERE user_id = :uid AND status IN ('PENDING','APPROVED') AND <overlap>
OverlapMatch(row, uid, s, e) ==
  /\ row.user_id = uid
  /\ row.status \in ACTIVE_STATUSES
  /\ DateRangesOverlap(row.start_date, row.end_date, s, e)

\* mutant: the balance check off by one
BalanceExceeded_OffByOne(used, days, total) == used + days > total + 1

\* if used + req.days > total: raise
BalanceExceeded(used, days, total) == used + days > total

\* mutant: the restored balance without the floor at 0
RestoredUsed_NoFloor(used, d) == used - d

\* SET annual_used = GREATEST(annual_used - :d, 0)
RestoredUsed(used, d) == Max(used - d, 0)

\* status not in ("PENDING", "APPROVED")
NotCancellable(status) == status \notin ACTIVE_STATUSES

\* the three selects of raise_leave / cancel_leave: the ids (users) of the rows returned
select_credit(D, uid) == {u \in Users : D.credit[u].has /\ CreditKeyMatch(u, uid)}
select_overlap(D, uid, s, e) == {i \in Ids(D) : OverlapMatch(D.leaves[i], uid, s, e)}
select_leave(D, uid, lid) == {i \in Ids(D) : LeaveKeyMatch(D.leaves[i], i, lid, uid)}

Owners(D, ids) == {D.leaves[i].user_id : i \in ids}

\* the three writes of raise_leave
insert_leave(D, uid, s, e, d) ==
  [D EXCEPT !.leaves = Append(@, [user_id |-> uid, start_date |-> s, end_date |-> e,
                                  days |-> d, status |-> "PENDING"])]
add_used(D, uid, d) ==
  [D EXCEPT !.credit = [u \in Users |->
      IF D.credit[u].has /\ CreditKeyMatch(u, uid)
      THEN [D.credit[u] EXCEPT !.annual_used = @ + d] ELSE D.credit[u]]]
insert_audit(D, uid, action) ==
  [D EXCEPT !.audit = Append(@, [user_id |-> uid, action |-> action])]

\* the two updates of cancel_leave
set_cancelled(D, uid, lid) ==
  [D EXCEPT !.leaves = [i \in Ids(D) |->
      IF LeaveKeyMatch(D.leaves[i], i, lid, uid)
      THEN [D.leaves[i] EXCEPT !.status = "CANCELLED"] ELSE D.leaves[i]]]
restore_used(D, uid, d) ==
  [D EXCEPT !.credit = [u \in Users |->
      IF D.credit[u].has /\ CreditKeyMatch(u, uid)
      THEN [D.credit[u] EXCEPT !.annual_used = RestoredUsed(@, d)] ELSE D.credit[u]]]

raise_leave(D, req) ==
  LET uid == req.user_id
      d == LeaveRequest_days(req)
      bal == select_credit(D, uid)
      ovl == select_overlap(D, uid, req.start_date, req.end_date)
  IN IF req.end_date < req.start_date
       THEN Outcome(D, FALSE, "End date must be after start date.", {})
     ELSE IF d <= 0
       THEN Outcome(D, FALSE, "Invalid number of days.", {})
     ELSE IF bal = {}
       THEN Outcome(D, FALSE, "No leave credit record found.", {})
     ELSE IF \E u \in bal :
               BalanceExceeded(D.credit[u].annual_used, d, D.credit[u].annual_total)
       THEN Outcome(D, FALSE, "Not enough leave balance.", bal)
     ELSE IF ovl # {}
       THEN Outcome(D, FALSE, "Leave overlaps with an existing one.",
                    bal \cup Owners(D, ovl))
     ELSE Outcome(insert_audit(add_used(insert_leave(D, uid, req.start_date,
                                                     req.end_date, d), uid, d),
                               uid, "RAISE_LEAVE"),
                  TRUE, "", bal)

cancel_leave(D, user_id, leave_id) ==
  LET row == select_leave(D, user_id, leave_id)
  IN IF row = {}
       THEN Outcome(D, FALSE, "Leave not found.", {})
     ELSE IF \E i \in row : NotCancellable(D.leaves[i].status)
       THEN Outcome(D, FALSE, "Only pending/approved leaves can be cancelled (demo).",
                    Owners(D, row))
     ELSE LET days == D.leaves[CHOOSE i \in row : TRUE].days
          IN Outcome(insert_audit(restore_used(set_cancelled(D, user_id, leave_id),
                                               user_id, days),
                                  user_id, "CANCEL_LEAVE"),
                     TRUE, "", Owners(D, row))

\* mutant: a field outside the allow-list accepted
validate_field_Salary(field) == field \in ALLOWED_PROFILE_FIELDS \cup {"base_salary"}

\* ProfileEdit.validate_field
validate_field(field) == field \in ALLOWED_PROFILE_FIELDS

(***************************************************************************)
(* agent.py: the tools of build_graph_for(user_id), closed over user_id.   *)
(***************************************************************************)
\* mutant: the end date computed without the - 1
raise_leave_tool_EndExclusive(D, user_id, start_date, end_date, days) ==
  IF start_date = NoDate
    THEN Outcome(D, FALSE, "Invalid isoformat string", {})
  ELSE IF end_date = NoDate /\ ~(days > 0)
    THEN Outcome(D, FALSE,
                 "Please provide either 'end_date' or a positive 'days' value.", {})
  ELSE raise_leave(D, [user_id |-> user_id, start_date |-> start_date,
                       end_date |-> IF end_date = NoDate
                                    THEN start_date + days ELSE end_date])

raise_leave_tool(D, user_id, start_date, end_date, days) ==
  IF start_date = NoDate
    THEN Outcome(D, FALSE, "Invalid isoformat string", {})
  ELSE IF end_date = NoDate /\ ~(days > 0)
    THEN Outcome(D, FALSE,
                 "Please provide either 'end_date' or a positive 'days' value.", {})
  ELSE raise_leave(D, [user_id |-> user_id, start_date |-> start_date,
                       end_date |-> IF end_date = NoDate
                                    THEN start_date + (days - 1) ELSE end_date])

cancel_leave_tool(D, user_id, leave_id) == cancel_leave(D, user_id, leave_id)

\* UPDATE users SET <field> = :v WHERE id = :uid ; SELECT ... FROM users WHERE id=:uid
UserKeyMatch(u, uid) == u = uid

edit_profile_tool(D, user_id, field, value) ==
  IF ~validate_field(field)
    THEN Outcome(D, FALSE, "Field is not editable.", {})
  ELSE Outcome([D EXCEPT !.users = [u \in Users |->
                   IF UserKeyMatch(u, user_id) THEN [D.users[u] EXCEPT ![field] = value]
                   ELSE D.users[u]]],
               TRUE, "", {u \in Users : UserKeyMatch(u, user_id)})

(***************************************************************************)
(* server.py: POST /api/employee/{username}/leaves.  It inserts the row    *)
(* with the day count of the body and appends an audit record; it neither  *)
(* reads nor updates leave_credits.                                        *)
(***************************************************************************)
create_leave_request(D, uid, sd, ed, days) ==
  Outcome(insert_audit(insert_leave(D, uid, sd, ed, days), uid, "leave_requested"),
          TRUE, "", {uid})

(***************************************************************************)
(* Sequential specification: one tool call or REST call at a time.         *)
(* last records the most recent call: the operation, the identity it was   *)
(* bound to, the leave_id argument (CancelLeave) and its outcome.          *)
(***************************************************************************)
LeaveRow(u, s, e, d, st) ==
  [user_id |-> u, start_date |-> s, end_date |-> e, days |-> d, status |-> st]

RECURSIVE SumDays(_, _, _)
SumDays(rows, u, i) ==
  IF i = 0 THEN 0
  ELSE SumDays(rows, u, i - 1) +
       (IF rows[i].user_id = u /\ rows[i].status \in ACTIVE_STATUSES
        THEN rows[i].days ELSE 0)

\* total days of the PENDING and APPROVED leaves of u
ActiveDays(D, u) == SumDays(D.leaves, u, Len(D.leaves))

\* Seed data: an APPROVED and a CANCELLED leave of user 1, a PENDING leave of
\* user 2, annual_used equal to the days of the PENDING and APPROVED leaves;
\* user 2 may lack a leave_credits row for the current year.
SeedLeaves ==
  << LeaveRow(1, 1, 1, 1, "APPROVED"),
     LeaveRow(1, 2, 3, 2, "CANCELLED"),
     LeaveRow(2, 1, 2, 2, "PENDING") >>

\* users.username of the seeded users
Username(u) == IF u = 1 THEN "alice" ELSE "bob"

SeedDB(has2) ==
  LET D0 == [leaves |-> SeedLeaves,
             credit |-> [u \in Users |-> [has |-> (u = 1 \/ has2),
                                          annual_total |-> 3,
                                          annual_used |-> 0]],
             audit |-> <<>>,
             users |-> [u \in Users |-> [c \in Columns \cup {"username"} |->
                                          IF c = "username" THEN Username(u) ELSE "v0"]]]
  IN [D0 EXCEPT !.credit = [u \in Users |->
        [D0.credit[u] EXCEPT !.annual_used = ActiveDays(D0, u)]]]

InitDBs == {SeedDB(has2) : has2 \in BOOLEAN}

Called(op, uid, lid, r) ==
  [op |-> op, uid |-> uid, lid |-> lid, ok |-> r.ok, err |-> r.err]

\* room left in the bounded tables for a call that succeeds
Room(r) == r.ok => Len(r.db.audit) <= MaxAudit

\* model-supplied RaiseLeave arguments <<start_date, end_date, days>>: an end
\* date (days left at its default 0), or no end date and a day count
DaysArgs == -1..2
RaiseArgs ==
  {<<s, e, 0>> : s \in Dates \cup {NoDate}, e \in Dates} \cup
  {<<s, NoDate, n>> : s \in Dates \cup {NoDate}, n \in DaysArgs}
LeaveIds == 0..(Len(SeedLeaves) + MaxAudit + 1)
AllFields == Columns \cup {"ssn"}
\* bodies of the REST leave creation: start_date <= end_date
RestRanges == {<<2, 3>>}

NoCall == [op |-> "none", uid |-> 0, lid |-> 0, ok |-> FALSE, err |-> ""]

Procs == 1..NumProcs
IdleProc == [pc |-> "idle", req |-> [user_id |-> 0, start_date |-> 0, end_date |-> 0],
             err |-> ""]

\* ChatIn.session, as a sequence of characters; <<>> is a request without a
\* session (None) or with an empty one, which chat does not tell apart
AllSessions == {<<>>, <<"default">>, <<"s">>}

\* mutant: the thread id without the session
chat_thread_id_NoSession(uid, session) == <<"user", ":", uid, ":", "default">>

\* f"user:{uid}:{inp.session or 'default'}"
chat_thread_id(uid, session) ==
  <<"user", ":", uid, ":">> \o (IF session = <<>> THEN <<"default">> ELSE session)

\* thread ids under which the checkpointer stores a transcript
ThreadKeys == {chat_thread_id(u, s) : u \in Users, s \in AllSessions}
NoReply == [error |-> FALSE, text |-> <<>>, exc |-> "none"]
IdleRun == [pc |-> "idle", thread |-> <<>>, uid |-> 0, steps |-> 0, n |-> 0,
            name |-> "", session |-> <<>>, before |-> <<>>, node |-> "none"]

\* nothing running: no call in progress, no transcript stored, no request
\* made, the vector store not yet initialized (_vector_store is None)
Quiet ==
  /\ last = NoCall
  /\ procs = [p \in Procs |-> IdleProc]
  /\ store = [t \in ThreadKeys |-> <<>>]
  /\ run = IdleRun
  /\ reply = NoReply
  /\ vector_store = FALSE

Init ==
  /\ db \in InitDBs
  /\ Quiet

RaiseLeaveTool ==
  \E u \in Users, a \in RaiseArgs :
    LET r == raise_leave_tool(db, u, a[1], a[2], a[3])
    IN /\ Room(r)
       /\ db' = r.db
       /\ last' = Called("RaiseLeave", u, 0, r)
       /\ UNCHANGED <<concvars, agentvars>>

CancelLeaveTool ==
  \E u \in Users, l \in LeaveIds :
    LET r == cancel_leave_tool(db, u, l)
    IN /\ Room(r)
       /\ db' = r.db
       /\ last' = Called("CancelLeave", u, l, r)
       /\ UNCHANGED <<concvars, agentvars>>

EditProfile(fields, values) ==
  \E u \in Users, f \in fields, v \in values :
    LET r == edit_profile_tool(db, u, f, v)
    IN /\ Room(r)
       /\ db' = r.db
       /\ last' = Called("EditProfile", u, 0, r)
       /\ UNCHANGED <<concvars, agentvars>>

\* EditProfile with every field name and value of the model
EditProfileTool == EditProfile(AllFields, Values)

\* EditProfile with one allowed and one disallowed field
EditProfileEmail == EditProfile({"email", "ssn"}, {"v1"})

CreateLeaveRest ==
  \E u \in Users, p \in RestRanges, n \in {2} :
    LET r == create_leave_request(db, u, p[1], p[2], n)
    IN /\ Room(r)
       /\ db' = r.db
       /\ last' = Called("RestCreateLeave", u, 0, r)
       /\ UNCHANGED <<concvars, agentvars>>

\* the leave tools and the REST leave creation
Next == RaiseLeaveTool \/ CancelLeaveTool \/ CreateLeaveRest

Spec == Init /\ [][Next]_vars

\* the three write tools of build_graph_for, on a database whose audit log
\* already holds the record of the PENDING leave of user 2
InitTools ==
  /\ db = [SeedDB(TRUE) EXCEPT !.audit = <<[user_id |-> 2, action |-> "RAISE_LEAVE"]>>]
  /\ Quiet
NextTools == RaiseLeaveTool \/ CancelLeaveTool \/ EditProfileEmail
SpecTools == InitTools /\ [][NextTools]_vars

\* EditProfile alone
NextProfile == EditProfileTool
SpecProfile == Init /\ [][NextProfile]_vars

(***************************************************************************)
(* Concurrent specification: NumProcs calls of raise_leave in flight at    *)
(* once.  db.py opens a connection per run_select and a transaction per    *)
(* run_write, so each statement of raise_leave is a step of its own and    *)
(* the statements of different calls interleave.                           *)
(***************************************************************************)
ConcRequests ==
  {[user_id |-> u, start_date |-> s, end_date |-> e] :
     u \in Users, s \in Dates, e \in Dates}

Failed(p, err) == procs' = [procs EXCEPT ![p].pc = "failed", ![p].err = err]
Goto(p, pc) == procs' = [procs EXCEPT ![p].pc = pc]

\* raise_leave is called: the two checks on the request itself
RaiseBegin(p) ==
  /\ procs[p].pc = "idle"
  /\ \E req \in ConcRequests :
       procs' = [procs EXCEPT ![p] =
         IF req.end_date < req.start_date
           THEN [pc |-> "failed", req |-> req, err |-> "End date must be after start date."]
         ELSE IF LeaveRequest_days(req) <= 0
           THEN [pc |-> "failed", req |-> req, err |-> "Invalid number of days."]
         ELSE [pc |-> "balance", req |-> req, err |-> ""]]
  /\ UNCHANGED <<db, last, agentvars>>

\* run_select on leave_credits and the balance check
RaiseCheckBalance(p) ==
  /\ procs[p].pc = "balance"
  /\ LET req == procs[p].req
         bal == select_credit(db, req.user_id)
     IN IF bal = {}
          THEN Failed(p, "No leave credit record found.")
        ELSE IF \E u \in bal : BalanceExceeded(db.credit[u].annual_used,
                                               LeaveRequest_days(req),
                                               db.credit[u].annual_total)
          THEN Failed(p, "Not enough leave balance.")
        ELSE Goto(p, "overlap")
  /\ UNCHANGED <<db, last, agentvars>>

\* run_select on leaves and the overlap check
RaiseCheckOverlap(p) ==
  /\ procs[p].pc = "overlap"
  /\ LET req == procs[p].req
     IN IF select_overlap(db, req.user_id, req.start_date, req.end_date) # {}
          THEN Failed(p, "Leave overlaps with an existing one.")
        ELSE Goto(p, "insert")
  /\ UNCHANGED <<db, last, agentvars>>

\* run_write: INSERT INTO leaves
RaiseInsert(p) ==
  /\ procs[p].pc = "insert"
  /\ LET req == procs[p].req
     IN db' = insert_leave(db, req.user_id, req.start_date, req.end_date,
                           LeaveRequest_days(req))
  /\ Goto(p, "update")
  /\ UNCHANGED <<last, agentvars>>

\* run_write: UPDATE leave_credits
RaiseUpdate(p) ==
  /\ procs[p].pc = "update"
  /\ db' = add_used(db, procs[p].req.user_id, LeaveRequest_days(procs[p].req))
  /\ Goto(p, "audit")
  /\ UNCHANGED <<last, agentvars>>

\* run_write: INSERT INTO audit_log, and the return
RaiseAudit(p) ==
  /\ procs[p].pc = "audit"
  /\ db' = insert_audit(db, procs[p].req.user_id, "RAISE_LEAVE")
  /\ Goto(p, "done")
  /\ UNCHANGED <<last, agentvars>>

InitConc ==
  /\ db = SeedDB(TRUE)
  /\ Quiet

NextConc ==
  \E p \in Procs :
    \/ RaiseBegin(p)
    \/ RaiseCheckBalance(p)
    \/ RaiseCheckOverlap(p)
    \/ RaiseInsert(p)
    \/ RaiseUpdate(p)
    \/ RaiseAudit(p)

SpecConc == InitConc /\ [][NextConc]_vars

(***************************************************************************)
(* server.py chat and agent.py: the graph of build_graph_for (planner ->   *)
(* tools -> planner), compiled with the SQLite checkpointer, and           *)
(* agent_respond.                                                          *)
(* store[t] is the message list the checkpointer holds for thread t: the   *)
(* graph state is loaded from it, the input messages are appended to it    *)
(* (add_messages) and it is saved after every node.  run is the request    *)
(* in progress: the node to run next, the number of nodes run so far, the  *)
(* number of requests made, the username and session of the request and    *)
(* the transcript stored for its thread when it arrived, the node entered  *)
(* last.  reply is what agent_respond returned.  vector_store:             *)
(* _vector_store is not None.                                              *)
(* run.pc is "replied" when chat answered with a reply (status 200),       *)
(* "notfound" when resolve_user raised HTTPException(404) and "raised"     *)
(* when agent_respond raised (status 500).                                 *)
(***************************************************************************)
RECURSION_LIMIT == 10

Msg(kind, content, tool_calls, tool_call_id) ==
  [kind |-> kind, content |-> content, tool_calls |-> tool_calls,
   tool_call_id |-> tool_call_id]
SystemMessage == Msg("system", <<"S">>, <<>>, 0)
HumanMessage(text) == Msg("human", text, <<>>, 0)
AIMessage(content, tool_calls) == Msg("ai", content, tool_calls, 0)
ToolMessage(content, id) == Msg("tool", content, <<>>, id)

\* ChatIn.text: the text of a request names its user and session
Text(username, session) == <<username>> \o session
Contents == {<<"o", "k">>, <<"n", "o">>, <<"{", "}", " ", "h", "i">>}

\* a tool request of the planner: the tool's name and the model-supplied
\* arguments (those of the other tools at their defaults); id is set when the
\* request is emitted
ToolCall(name, leave_id, start_date, end_date, days, field) ==
  [id |-> 0, name |-> name, leave_id |-> leave_id, start_date |-> start_date,
   end_date |-> end_date, days |-> days, field |-> field, value |-> "v1"]
CancelCall(leave_id) == ToolCall("CancelLeave", leave_id, NoDate, NoDate, 0, "")
RaiseCall(start_date, end_date, days) ==
  ToolCall("RaiseLeave", 0, start_date, end_date, days, "")
EditCall(field) == ToolCall("EditProfile", 0, NoDate, NoDate, 0, field)

\* the tool requests of one Assistant turn: CancelLeave of leave 1, twice
CancelBatches == {<<CancelCall(1), CancelCall(1)>>}

\* one request per turn, among them one for each error a write tool raises:
\* no end date and no positive days, not enough balance, overlap, a leave that
\* is not the user's or not cancellable, a field that is not editable
ErrorBatches ==
  {<<c>> : c \in {RaiseCall(1, NoDate, 0), RaiseCall(1, 3, 0), RaiseCall(1, 1, 0),
                  CancelCall(2), CancelCall(3), EditCall("ssn"), EditCall("email")}}

\* the requests of a turn appended at position pos, with ids unique in the transcript
Numbered(batch, pos) == [k \in 1..Len(batch) |-> [batch[k] EXCEPT !.id = 2 * pos + k]]

\* what llm_with_tools.invoke may answer: a final text, or tool requests
PlannerOutputs(msgs, batches) ==
  {AIMessage(c, <<>>) : c \in Contents} \cup
  {AIMessage(<<>>, Numbered(b, Len(msgs) + 1)) : b \in batches}

\* mutant: every Assistant turn routed to the tools node
should_continue_AnyTurn(msgs) == msgs[Len(msgs)].kind = "ai"

\* should_continue: the last message is an AIMessage with tool_calls
should_continue(msgs) ==
  LET m == msgs[Len(msgs)] IN m.kind = "ai" /\ m.tool_calls # <<>>

\* mutant: no step budget
WithinBudget_NoLimit(steps) == TRUE

\* the loop goes on while fewer than recursion_limit nodes have run
WithinBudget(steps) == steps < RECURSION_LIMIT

\* a tool of the tool set of build_graph_for(user_id), called by name
invoke_tool(D, user_id, call) ==
  IF call.name = "CancelLeave" THEN cancel_leave_tool(D, user_id, call.leave_id)
  ELSE IF call.name = "RaiseLeave"
    THEN raise_leave_tool(D, user_id, call.start_date, call.end_date, call.days)
  ELSE IF call.name = "EditProfile"
    THEN edit_profile_tool(D, user_id, call.field, call.value)
  ELSE Outcome(D, FALSE, "unknown tool", {})

\* ToolNode: the requests of a turn are run, the outcomes kept in request order
\* (ToolNode runs them on a thread pool; here they take effect one after the
\* other, in request order)
RECURSIVE run_tools(_, _, _, _)
run_tools(D, user_id, calls, i) ==
  IF i = 0 THEN [db |-> D, outs |-> <<>>]
  ELSE LET done == run_tools(D, user_id, calls, i - 1)
           r == invoke_tool(done.db, user_id, calls[i])
       IN [db |-> r.db,
           outs |-> Append(done.outs, [ok |-> r.ok, err |-> r.err, id |-> calls[i].id])]

\* the ToolMessage of an outcome: the tool's result, or the error as text
tool_message(out) ==
  ToolMessage(IF out.ok THEN <<"o", "k">> ELSE <<"E", out.err>>, out.id)

\* str.find: the 0-based index of the first occurrence, or -1
Find(content, ch) ==
  IF \E i \in 1..Len(content) : content[i] = ch
  THEN (CHOOSE i \in 1..Len(content) :
          content[i] = ch /\ \A j \in 1..(i - 1) : content[j] # ch) - 1
  ELSE -1

\* content[ind+2:] when "}" occurs at ind, else the content
Truncated(content) ==
  LET ind == Find(content, "}")
  IN IF ind # -1 THEN SubSeq(content, ind + 3, Len(content)) ELSE content

\* isinstance(m, AIMessage) and not m.tool_calls
IsAnswer(m) == m.kind = "ai" /\ m.tool_calls = <<>>

Unbound == <<"unbound">>

\* for m in reversed(out["messages"]): the loop runs to the start of the list
\* and assigns at every answer it meets
RECURSIVE ScanReversed(_, _, _)
ScanReversed(msgs, i, trunacted_msg) ==
  IF i = 0 THEN trunacted_msg
  ELSE ScanReversed(msgs, i - 1,
                    IF IsAnswer(msgs[i]) THEN Truncated(msgs[i].content)
                    ELSE trunacted_msg)

\* f"Error while processing your request: {str(e)}": exc is str(e)
ErrorReply(exc) == [error |-> TRUE, text |-> <<>>, exc |-> exc]

\* the value agent_respond returns after app_graph.invoke returned out
agent_reply(msgs) ==
  LET t == ScanReversed(msgs, Len(msgs), Unbound)
  IN IF t = Unbound THEN ErrorReply("UnboundLocalError")
     ELSE [error |-> FALSE, text |-> t, exc |-> "none"]

\* mutant: the except clause answering from the transcript
on_exception_FromTranscript(exc, msgs) ==
  IF ScanReversed(msgs, Len(msgs), Unbound) = Unbound THEN ErrorReply(exc)
  ELSE agent_reply(msgs)

\* except Exception as e: the reply of agent_respond when invoke raised
on_exception(exc, msgs) == ErrorReply(exc)

\* thread_id or f"user:{user_id}:default"
thread_key(thread_id, user_id) ==
  IF thread_id = <<>> THEN <<"user", ":", user_id, ":", "default">> ELSE thread_id

\* mutant: an unknown username resolved to a fallback identity
resolve_user_Fallback(D, username) ==
  LET row == {u \in Users : D.users[u]["username"] = username}
  IN IF row = {} THEN {1} ELSE row

\* SELECT id FROM users WHERE username=:u
resolve_user(D, username) == {u \in Users : D.users[u]["username"] = username}

\* server.chat up to the first node of the graph: resolve_user, the thread id
\* of (user, session), then agent_respond: build_graph_for, whose retrieval
\* tool needs the vector store (initialized on first use, which may fail), and
\* invoke, which appends the input messages to the stored transcript
Chat(names, sessions) ==
  /\ run.pc \in {"idle", "replied", "notfound", "raised"}
  /\ run.n < MaxRequests
  /\ \E username \in names, session \in sessions :
       LET row == resolve_user(db, username)
           uid == CHOOSE u \in row : TRUE
           t == thread_key(chat_thread_id(uid, session), uid)
           r == [IdleRun EXCEPT !.n = run.n + 1, !.name = username,
                                !.session = session]
       IN IF row = {}
            THEN /\ run' = [r EXCEPT !.pc = "notfound"]
                 /\ UNCHANGED <<store, vector_store>>
          ELSE \/ /\ ~vector_store
                  /\ run' = [r EXCEPT !.pc = "raised", !.uid = uid]
                  /\ UNCHANGED <<store, vector_store>>
               \/ /\ vector_store' = TRUE
                  /\ store' = [store EXCEPT ![t] =
                       @ \o <<SystemMessage, HumanMessage(Text(username, session))>>]
                  /\ run' = [r EXCEPT !.pc = "planner", !.thread = t, !.uid = uid,
                                      !.before = store[t]]
  /\ reply' = NoReply
  /\ UNCHANGED <<db, last, concvars>>

\* requests of alice and of an unknown user, without a session
ChatRequest == Chat({"alice", "ghost"}, {<<>>})

\* planner_node, then the conditional edge should_continue
Planner(batches) ==
  /\ run.pc = "planner"
  /\ WithinBudget(run.steps)
  /\ \E resp \in PlannerOutputs(store[run.thread], batches) :
       LET msgs == Append(store[run.thread], resp)
       IN /\ store' = [store EXCEPT ![run.thread] = msgs]
          /\ run' = [run EXCEPT !.steps = @ + 1, !.node = "planner",
                                !.pc = IF should_continue(msgs) THEN "tools" ELSE "end"]
  /\ UNCHANGED <<db, last, reply, vector_store, concvars>>

PlannerNode == Planner(CancelBatches)

\* planner_node when llm_with_tools.invoke raises (the model endpoint fails or
\* rejects the messages): the error leaves invoke and the except clause of
\* agent_respond turns it into the reply
PlannerRaises ==
  /\ run.pc = "planner"
  /\ WithinBudget(run.steps)
  /\ reply' = on_exception("APIError", store[run.thread])
  /\ run' = [run EXCEPT !.pc = "replied", !.node = "planner"]
  /\ UNCHANGED <<db, last, store, vector_store, concvars>>

\* ToolNode: the tool requests of the last message are executed; for each, in
\* request order, its result, or the error the tool raised, is appended as a
\* ToolMessage
ToolsNode ==
  /\ run.pc = "tools"
  /\ WithinBudget(run.steps)
  /\ LET msgs == store[run.thread]
         calls == msgs[Len(msgs)].tool_calls
         done == run_tools(db, run.uid, calls, Len(calls))
     IN /\ db' = done.db
        /\ store' = [store EXCEPT ![run.thread] =
             msgs \o [k \in 1..Len(calls) |-> tool_message(done.outs[k])]]
  /\ run' = [run EXCEPT !.steps = @ + 1, !.pc = "planner", !.node = "tools"]
  /\ UNCHANGED <<last, reply, vector_store, concvars>>

\* ToolNode with a tool error it does not handle (whether ToolNode turns a
\* ValueError of a tool into a ToolMessage or re-raises it depends on the
\* langgraph release installed; both outcomes are modelled): the tools have
\* run, no message is appended, the error leaves invoke and is turned into the
\* reply by the except clause of agent_respond
ToolsNodeRaises ==
  /\ run.pc = "tools"
  /\ WithinBudget(run.steps)
  /\ LET msgs == store[run.thread]
         calls == msgs[Len(msgs)].tool_calls
         done == run_tools(db, run.uid, calls, Len(calls))
     IN /\ \E k \in 1..Len(calls) : ~done.outs[k].ok
        /\ db' = done.db
        /\ reply' = on_exception(
             done.outs[CHOOSE k \in 1..Len(calls) :
                         /\ ~done.outs[k].ok
                         /\ \A j \in 1..(k - 1) : done.outs[j].ok].err, msgs)
  /\ run' = [run EXCEPT !.pc = "replied", !.node = "tools"]
  /\ UNCHANGED <<last, store, vector_store, concvars>>

\* recursion_limit nodes have run and another is due: invoke raises
\* GraphRecursionError, which the except clause turns into the reply
OutOfSteps ==
  /\ run.pc \in {"planner", "tools"}
  /\ ~WithinBudget(run.steps)
  /\ reply' = on_exception("GraphRecursionError", store[run.thread])
  /\ run' = [run EXCEPT !.pc = "replied"]
  /\ UNCHANGED <<db, last, store, vector_store, concvars>>

\* invoke returned: the reply is extracted from out["messages"]
ReturnReply ==
  /\ run.pc = "end"
  /\ reply' = agent_reply(store[run.thread])
  /\ run' = [run EXCEPT !.pc = "replied"]
  /\ UNCHANGED <<db, last, store, vector_store, concvars>>

InitAgent ==
  /\ db = SeedDB(TRUE)
  /\ Quiet

NextAgent ==
  \/ ChatRequest
  \/ PlannerNode
  \/ PlannerRaises
  \/ ToolsNode
  \/ ToolsNodeRaises
  \/ OutOfSteps
  \/ ReturnReply

SpecAgent == InitAgent /\ [][NextAgent]_vars

\* requests of both users under every session value, the planner answering
\* without tool requests
ChatSessions == Chat({"alice", "bob"}, AllSessions)
PlannerAnswers == Planner({})

NextSessions ==
  \/ ChatSessions
  \/ PlannerAnswers
  \/ PlannerRaises
  \/ ReturnReply

SpecSessions == InitAgent /\ [][NextSessions]_vars

\* the last request of alice on a fresh session, the planner requesting the
\* write tools with arguments they reject
ChatAlice == Chat({"alice"}, {<<>>})
PlannerErrors == Planner(ErrorBatches)

InitToolErrors ==
  /\ db = SeedDB(TRUE)
  /\ last = NoCall
  /\ procs = [p \in Procs |-> IdleProc]
  /\ store = [t \in ThreadKeys |-> <<>>]
  /\ run = [IdleRun EXCEPT !.n = MaxRequests - 1]
  /\ reply = NoReply
  /\ vector_store = TRUE

NextToolErrors ==
  \/ ChatAlice
  \/ PlannerErrors
  \/ ToolsNode
  \/ ToolsNodeRaises
  \/ OutOfSteps
  \/ ReturnReply

SpecToolErrors == InitToolErrors /\ [][NextToolErrors]_vars

(***************************************************************************)
(* Concurrent requests on one session: chat is a synchronous endpoint, so  *)
(* requests run on worker threads at once, and nothing in chat or          *)
(* agent_respond locks a thread id.  invoke loads the latest checkpoint of *)
(* the thread into the state of its own run, and saves that state as the   *)
(* latest checkpoint after the input and after every node.  procs[p] is    *)
(* request p: msgs the state of its run, loaded the length of the          *)
(* transcript it loaded.  The requests are alice's, without a session, and *)
(* the planner answers without tool requests.                              *)
(***************************************************************************)
IdleChat == [pc |-> "idle", msgs |-> <<>>, loaded |-> 0, reply |-> NoReply]

ConcThread == thread_key(chat_thread_id(1, <<>>), 1)

\* chat, build_graph_for and the start of invoke: the checkpoint is loaded
ChatLoad(p) ==
  /\ procs[p].pc = "idle"
  /\ resolve_user(db, "alice") = {1}
  /\ vector_store' = TRUE
  /\ procs' = [procs EXCEPT ![p] = [pc |-> "input", msgs |-> store[ConcThread],
                                    loaded |-> Len(store[ConcThread]),
                                    reply |-> NoReply]]
  /\ UNCHANGED <<db, last, store, run, reply>>

\* the input messages are added to the state of the run, which is saved
ChatInput(p) ==
  /\ procs[p].pc = "input"
  /\ LET msgs == procs[p].msgs \o
                   <<SystemMessage, HumanMessage(Text("alice", <<>>))>>
     IN /\ procs' = [procs EXCEPT ![p].pc = "planner", ![p].msgs = msgs]
        /\ store' = [store EXCEPT ![ConcThread] = msgs]
  /\ UNCHANGED <<db, last, run, reply, vector_store>>

\* planner_node answers; the state of the run is saved
ChatPlanner(p) ==
  /\ procs[p].pc = "planner"
  /\ \E resp \in PlannerOutputs(procs[p].msgs, {}) :
       LET msgs == Append(procs[p].msgs, resp)
       IN /\ procs' = [procs EXCEPT ![p].pc = "end", ![p].msgs = msgs]
          /\ store' = [store EXCEPT ![ConcThread] = msgs]
  /\ UNCHANGED <<db, last, run, reply, vector_store>>

\* invoke returned out: agent_respond extracts the reply
ChatReturn(p) ==
  /\ procs[p].pc = "end"
  /\ procs' = [procs EXCEPT ![p].pc = "done", ![p].reply = agent_reply(procs[p].msgs)]
  /\ UNCHANGED <<db, last, store, run, reply, vector_store>>

InitChatConc ==
  /\ db = SeedDB(TRUE)
  /\ last = NoCall
  /\ procs = [p \in Procs |-> IdleChat]
  /\ store = [t \in ThreadKeys |-> <<>>]
  /\ run = IdleRun
  /\ reply = NoReply
  /\ vector_store = FALSE

NextChatConc ==
  \E p \in Procs :
    \/ ChatLoad(p)
    \/ ChatInput(p)
    \/ ChatPlanner(p)
    \/ ChatReturn(p)

SpecChatConc == InitChatConc /\ [][NextChatConc]_vars

(***************************************************************************)
(* Properties of the identity-bound tools.                                 *)
(***************************************************************************)
IsPrefix(a, b) == Len(a) <= Len(b) /\ SubSeq(b, 1, Len(a)) = a

\* what a call bound to identity u may do: the rows its selects return are rows
\* of u, the rows of every other user are as before, and every row it adds
\* (leave or audit record) is a row of u
KeyedBy(D, u, r) ==
  /\ r.reads \subseteq {u}
  /\ \A v \in Users \ {u} : r.db.credit[v] = D.credit[v] /\ r.db.users[v] = D.users[v]
  /\ Len(r.db.leaves) >= Len(D.leaves)
  /\ \A i \in Ids(D) : D.leaves[i].user_id # u => r.db.leaves[i] = D.leaves[i]
  /\ \A i \in Ids(r.db) : i > Len(D.leaves) => r.db.leaves[i].user_id = u
  /\ IsPrefix(D.audit, r.db.audit)
  /\ \A i \in 1..Len(r.db.audit) : i > Len(D.audit) => r.db.audit[i].user_id = u

\* C1: every call of a write tool built for identity u, with arbitrary
\* model-supplied arguments, reads and changes rows of u only; CancelLeave with
\* a leave_id owned by another user changes nothing.
C1_ToolsKeyedByBoundUser ==
  \A u \in Users :
    /\ \A a \in RaiseArgs : KeyedBy(db, u, raise_leave_tool(db, u, a[1], a[2], a[3]))
    /\ \A l \in LeaveIds :
         LET r == cancel_leave_tool(db, u, l)
         IN /\ KeyedBy(db, u, r)
            /\ (l \in Ids(db) /\ db.leaves[l].user_id # u) => (r.db = db /\ ~r.ok)
    /\ \A f \in AllFields, v \in Values : KeyedBy(db, u, edit_profile_tool(db, u, f, v))

\* C1 witness: identity 1 called CancelLeave with the id of a leave of user 2,
\* which is still PENDING.
C1_Witness ==
  /\ last.op = "CancelLeave" /\ last.uid = 1 /\ ~last.ok
  /\ last.lid \in Ids(db)
  /\ db.leaves[last.lid].user_id = 2
  /\ db.leaves[last.lid].status = "PENDING"

\* requests given to raise_leave: end dates one past the last day included
Requests ==
  [user_id : Users, start_date : Dates, end_date : 0..(MaxDay + 1)]

\* an existing PENDING or APPROVED leave of the same user shares a day with s..e
HasActiveOverlap(D, u, s, e) ==
  \E i \in Ids(D) :
    /\ D.leaves[i].user_id = u
    /\ D.leaves[i].status \in {"PENDING", "APPROVED"}
    /\ \E day \in 0..(MaxDay + MaxAudit + 2) :
         /\ D.leaves[i].start_date <= day /\ day <= D.leaves[i].end_date
         /\ s <= day /\ day <= e

C3_OverBalanceRejected ==
  \A req \in Requests :
    LET u == req.user_id
        n == req.end_date - req.start_date + 1
        r == raise_leave(db, req)
    IN (db.credit[u].has /\ db.credit[u].annual_used + n > db.credit[u].annual_total)
       => /\ ~r.ok
          /\ r.err = "Not enough leave balance."
          /\ r.db = db

\* C3 witness: RaiseLeave was rejected for lack of balance.
C3_Witness ==
  /\ last.op = "RaiseLeave" /\ ~last.ok
  /\ last.err = "Not enough leave balance."

\* C4: a request overlapping a PENDING or APPROVED leave of the same user is
\* rejected and changes nothing, and so is the same request made again; a
\* rejection for overlap only ever comes from such a leave, never from a
\* CANCELLED leave or a leave of another user.
C4_OverlapRejectedIdempotent ==
  \A req \in Requests :
    LET r1 == raise_leave(db, req)
        r2 == raise_leave(r1.db, req)
        ovl == HasActiveOverlap(db, req.user_id, req.start_date, req.end_date)
    IN /\ (req.end_date >= req.start_date /\ ovl)
            => (~r1.ok /\ r1.db = db /\ ~r2.ok /\ r2.err = r1.err /\ r2.db = db)
       /\ (r1.err = "Leave overlaps with an existing one.") => ovl

\* C4 witness: RaiseLeave was rejected for overlap, and a request exists that is
\* accepted although it overlaps a CANCELLED leave of the user and a leave of
\* another user.
C4_Witness ==
  /\ last.op = "RaiseLeave" /\ last.err = "Leave overlaps with an existing one."
  /\ \E req \in Requests :
       /\ raise_leave(db, req).ok
       /\ \E i, j \in Ids(db) :
            /\ db.leaves[i].user_id = req.user_id /\ db.leaves[i].status = "CANCELLED"
            /\ DateRangesOverlap(db.leaves[i].start_date, db.leaves[i].end_date,
                                 req.start_date, req.end_date)
            /\ db.leaves[j].user_id # req.user_id /\ db.leaves[j].status = "PENDING"
            /\ DateRangesOverlap(db.leaves[j].start_date, db.leaves[j].end_date,
                                 req.start_date, req.end_date)

C6_EditProfileAllowList ==
  \A u \in Users, f \in AllFields, v \in Values :
    LET r == edit_profile_tool(db, u, f, v)
    IN IF f \in {"address", "contact_phone", "email", "employment_title", "org_unit"}
       THEN /\ r.ok
            /\ r.db = [db EXCEPT !.users[u][f] = v]
       ELSE /\ ~r.ok
            /\ r.db = db

\* C6 witness: EditProfile was rejected while the profile holds an edited value.
C6_Witness ==
  /\ last.op = "EditProfile" /\ ~last.ok
  /\ last.err = "Field is not editable."
  /\ \E u \in Users : db.users[u]["email"] = "v1" /\ db.users[u]["address"] = "v0"

\* C7: under every interleaving of concurrent raise-leave calls no user's
\* annual_used exceeds annual_total.
C7_NoOverCommit ==
  \A u \in Users : db.credit[u].has => db.credit[u].annual_used <= db.credit[u].annual_total

(***************************************************************************)
(* Properties of agent_respond.                                            *)
(***************************************************************************)
Answers(msgs) == {i \in 1..Len(msgs) : msgs[i].kind = "ai" /\ msgs[i].tool_calls = <<>>}

MostRecent(S) == CHOOSE i \in S : \A j \in S : j <= i

\* the request in progress has returned a reply extracted from the transcript
Answered == run.pc = "replied" /\ ~reply.error

\* C8: when the transcript holds several Assistant turns without tool
\* requests, the reply is taken from the most recent of them.
C8_ReplyFromMostRecentAnswer ==
  LET msgs == store[run.thread]
  IN (Answered /\ Cardinality(Answers(msgs)) >= 2)
     => LET content == msgs[MostRecent(Answers(msgs))].content
        IN reply.text = content \/ reply.text = Truncated(content)

\* C9: when the run ends with a final Assistant turn without tool requests,
\* the reply is that turn's content, character for character.
C9_ReplyIsFinalContent ==
  LET msgs == store[run.thread]
  IN Answered => reply.text = msgs[Len(msgs)].content

\* the nodes of the request in progress that have appended to the transcript:
\* a planner node for every Assistant turn, a tools node for every Assistant
\* turn followed by its results
NodesRun(msgs) ==
  LET h == MostRecent({i \in 1..Len(msgs) : msgs[i].kind = "human"})
      turns == {i \in (h + 1)..Len(msgs) : msgs[i].kind = "ai"}
  IN Cardinality(turns) +
     Cardinality({i \in turns : i < Len(msgs) /\ msgs[i + 1].kind = "tool"})

\* C10: whatever the planner emits, the planner and tools nodes of one run
\* execute at most 10 steps; when 10 have run and another is due, no node runs
\* and the run stops.
C10_StepBudget ==
  run.pc \in {"planner", "tools", "end", "replied"} =>
    /\ run.steps <= 10
    /\ NodesRun(store[run.thread]) <= 10
    /\ (run.pc \in {"planner", "tools"} /\ run.steps = 10)
         => /\ ~ENABLED PlannerNode
            /\ ~ENABLED ToolsNode
            /\ ~ENABLED ToolsNodeRaises
            /\ ENABLED OutOfSteps

\* C10 witness: the planner emitted a tool request on every turn, 10 nodes ran
\* and the run was stopped.
C10_Witness ==
  /\ run.pc = "replied"
  /\ reply = ErrorReply("GraphRecursionError")
  /\ run.steps = 10
  /\ LET msgs == store[run.thread]
     IN /\ NodesRun(msgs) = 10
        /\ \A i \in 1..Len(msgs) : msgs[i].kind = "ai" => msgs[i].tool_calls # <<>>

\* the request in progress was stopped by the step budget
Exhausted == run.pc = "replied" /\ run.steps = RECURSION_LIMIT

\* the Assistant turns of a transcript
Turns(msgs) == {i \in 1..Len(msgs) : msgs[i].kind = "ai"}

\* C11: when the step budget is exhausted (the final Assistant turn still
\* carries tool requests), the reply is the one fixed error reply, the same
\* for every such run, and is not the content of any answer in the
\* transcript, in particular not of an answer to an earlier request.
C11_ExhaustedFixedReply ==
  LET msgs == store[run.thread]
  IN Exhausted =>
       /\ msgs[MostRecent(Turns(msgs))].tool_calls # <<>>
       /\ reply = ErrorReply("GraphRecursionError")
       /\ \A i \in Answers(msgs) :
            reply.text \notin {msgs[i].content, Truncated(msgs[i].content)}

\* C11 witness: the second request of a session ran out of steps while the
\* transcript holds the answer to the first.
C11_Witness ==
  /\ Exhausted
  /\ run.n = 2
  /\ Answers(store[run.thread]) # {}
  /\ reply.error

\* the most recent message is an Assistant turn carrying tool requests
PendingRequests(msgs) ==
  /\ msgs # <<>>
  /\ msgs[Len(msgs)].kind = "ai"
  /\ msgs[Len(msgs)].tool_calls # <<>>

\* C12: after every planner step control goes to the tools node if and only
\* if the most recent message is an Assistant turn carrying tool requests, and
\* otherwise the run ends; the tools node is never entered without a pending
\* tool request; a run never ends while the requests of its last Assistant
\* turn have not been handed to the tools node, unless the step budget is
\* exhausted.
C12_PlannerRouting ==
  /\ [](run.pc = "tools" => PendingRequests(store[run.thread]))
  /\ []((run.pc = "end" \/ Answered) =>
          /\ store[run.thread] # <<>>
          /\ IsAnswer(store[run.thread][Len(store[run.thread])]))
  /\ []((run.pc = "replied" /\ PendingRequests(store[run.thread])) =>
          (run.node = "tools" \/ Exhausted))
  /\ [][(run.pc = "planner" /\ run'.node = "planner" /\ run'.pc # "replied") =>
          /\ run'.steps = run.steps + 1
          /\ run'.pc = IF PendingRequests(store'[run.thread]) THEN "tools" ELSE "end"]_vars

\* C12 witness: within one request the planner was routed to the tools node,
\* the results came back, and the next planner step ended the run.
C12_Witness ==
  /\ run.pc = "end"
  /\ run.steps = 3
  /\ LET msgs == store[run.thread]
     IN /\ msgs[Len(msgs) - 1].kind = "tool"
        /\ IsAnswer(msgs[Len(msgs)])

\* every ToolResult answers the request at its position in the nearest
\* preceding Assistant turn, and every Assistant turn is followed by the
\* results of all its requests, in request order
ResultsMatchRequests(msgs) ==
  /\ \A i \in 1..Len(msgs) :
       msgs[i].kind = "tool" =>
         \E j \in 1..(i - 1) :
           /\ msgs[j].kind = "ai"
           /\ \A k \in (j + 1)..(i - 1) : msgs[k].kind = "tool"
           /\ i - j <= Len(msgs[j].tool_calls)
           /\ msgs[j].tool_calls[i - j].id = msgs[i].tool_call_id
           /\ Cardinality({k \in 1..Len(msgs[j].tool_calls) :
                             msgs[j].tool_calls[k].id = msgs[i].tool_call_id}) = 1
  /\ \A j \in Turns(msgs) :
       \A k \in 1..Len(msgs[j].tool_calls) :
         /\ j + k <= Len(msgs)
         /\ msgs[j + k].kind = "tool"
         /\ msgs[j + k].tool_call_id = msgs[j].tool_calls[k].id

\* C13: in every transcript handed to the planner each ToolResult matches
\* exactly one request of the nearest preceding Assistant turn and all results
\* of every Assistant turn are present, in request order, also on a resumed
\* session whose earlier request failed or ran out of steps.
C13_ResultsMatchRequests ==
  run.pc = "planner" => ResultsMatchRequests(store[run.thread])

\* a request has got past resolve_user and build_graph_for
InGraph == run.pc \in {"planner", "tools", "end", "replied"}

\* the Human turns of a transcript
HumanTurns(msgs) == {i \in 1..Len(msgs) : msgs[i].kind = "human"}

\* C14 (as claimed): the transcript a request resumes holds only turns of
\* requests of the same user with the same session value; a request carrying
\* a different session value never sees them.
C14_SessionValueRoundTrip ==
  InGraph =>
    \A i \in HumanTurns(run.before) :
      run.before[i].content = Text(run.name, run.session)

\* the session a request runs under: its session value, "default" when the
\* value is omitted or empty
EffectiveSession(session) == IF session = <<>> THEN <<"default">> ELSE session

\* C14 (amended): the transcript a request resumes is exactly the one stored
\* for its user and effective session (the session value, or "default" when
\* it is omitted or empty): it holds only turns of requests of that user and
\* effective session, every stored transcript only ever grows at its end, a
\* request appends its two input turns to its own transcript and touches no
\* other; so a request without a session, with an empty one or with the
\* value "default" resumes the same per-user default conversation, and
\* requests whose effective sessions differ never see each other's turns.
C14_SessionKeyRoundTrip ==
  /\ [](\A u \in Users, s \in AllSessions :
          LET msgs == store[chat_thread_id(u, s)]
          IN \A i \in HumanTurns(msgs) :
               \E s2 \in AllSessions :
                 /\ msgs[i].content = Text(Username(u), s2)
                 /\ EffectiveSession(s2) = EffectiveSession(s))
  /\ [](InGraph => /\ run.thread = chat_thread_id(run.uid, run.session)
                   /\ Username(run.uid) = run.name
                   /\ IsPrefix(run.before, store[run.thread]))
  /\ [][\A t \in ThreadKeys : IsPrefix(store[t], store'[t])]_vars
  /\ [][(run'.n # run.n /\ run'.pc = "planner") =>
          /\ run'.before = store[run'.thread]
          /\ store'[run'.thread] =
               store[run'.thread] \o
                 <<SystemMessage, HumanMessage(Text(run'.name, run'.session))>>
          /\ \A t \in ThreadKeys \ {run'.thread} : store'[t] = store[t]]_vars

\* C14 witness: a request of a user under session "s" started from an empty
\* transcript and was answered while the user's default conversation holds
\* the turns of an earlier request.
C14_Witness ==
  /\ Answered
  /\ run.session = <<"s">>
  /\ run.before = <<>>
  /\ Answers(store[chat_thread_id(run.uid, <<>>)]) # {}
  /\ HumanTurns(store[run.thread]) # {}

\* C15: when a request fails (an exception in the planner or in a tool, or
\* the step budget exhausted), the transcript stored for its session is
\* exactly what it was before the request.
C15_FailedRequestLeavesTranscript ==
  (run.pc = "replied" /\ reply.error) => store[run.thread] = run.before

\* the turns request p appended to the transcript it loaded
OwnTurns(p) == SubSeq(procs[p].msgs, procs[p].loaded + 1, Len(procs[p].msgs))

\* the turns of the requests in the order given
RECURSIVE TurnsInOrder(_, _)
TurnsInOrder(order, i) ==
  IF i = 0 THEN <<>> ELSE TurnsInOrder(order, i - 1) \o OwnTurns(order[i])

\* C16: once concurrent requests on the same (user, session) have all
\* returned, the stored transcript holds the turns of every one of them, the
\* turns of each request contiguous: it is the turns of the requests one
\* request after the other, in some order.
C16_ConcurrentRequestsSerialized ==
  (\A p \in Procs : procs[p].pc = "done") =>
    \E order \in [1..NumProcs -> Procs] :
      /\ \A p \in Procs : \E i \in 1..NumProcs : order[i] = p
      /\ store[ConcThread] = TurnsInOrder(order, NumProcs)

\* the argument errors and business-rule rejections the write tools raise
ToolErrors ==
  {"Please provide either 'end_date' or a positive 'days' value.",
   "Not enough leave balance.",
   "Leave overlaps with an existing one.",
   "Leave not found.",
   "Only pending/approved leaves can be cancelled (demo).",
   "Field is not editable."}

\* C17: an argument error or business-rule rejection raised by a tool never
\* aborts the run: no request is answered from such an error; the error is
\* appended as the ToolResult of the failing request and the planner runs
\* again.
C17_ToolErrorsBecomeResults ==
  run.pc = "replied" => reply.exc \notin ToolErrors

\* C18: whatever fails inside a request, the reply carries no text of the
\* raised exception.
C18_ReplyHasNoExceptionText ==
  run.pc = "replied" => reply.exc = "none"

\* C19: a /chat request whose username resolves is always answered with a
\* reply: agent_respond never raises.
C19_AgentRespondNeverRaises ==
  run.pc # "raised"

\* no users row has this username
UnknownName(D, username) == \A u \in Users : D.users[u]["username"] # username

\* C20: a /chat request whose username is not in the users table fails with
\* 404 before agent_respond is called: no identity, thread or reply is
\* produced for it, no planner or tools step can follow, and neither the
\* database, nor a stored transcript, nor the vector store changes.
C20_UnknownUserNotFound ==
  /\ []((run.pc # "idle" /\ UnknownName(db, run.name)) =>
          /\ run.pc = "notfound"
          /\ run.uid = 0
          /\ run.thread = <<>>
          /\ reply = NoReply)
  /\ [][UnknownName(db, run.name) =>
          (run'.n # run.n \/ UNCHANGED vars)]_vars
  /\ [][(run'.n # run.n /\ UnknownName(db, run'.name)) =>
          /\ db' = db
          /\ store' = store
          /\ vector_store' = vector_store]_vars

\* C20 witness: an unknown username was refused after a request of alice had
\* been answered; the transcript of alice is still stored.
C20_Witness ==
  /\ run.pc = "notfound"
  /\ run.name = "ghost"
  /\ run.n = 2
  /\ Answers(store[chat_thread_id(1, <<>>)]) # {}

(***************************************************************************)
(* Properties of the audit log and of the arguments of RaiseLeave.         *)
(***************************************************************************)
\* what a call bound to identity u does to audit_log: the records already
\* there stay as they are, a successful call adds exactly one record, of u, and
\* a rejected call adds none
AuditedOnce(D, u, r) ==
  /\ IsPrefix(D.audit, r.db.audit)
  /\ Len(r.db.audit) = Len(D.audit) + (IF r.ok THEN 1 ELSE 0)
  /\ \A i \in 1..Len(r.db.audit) : i > Len(D.audit) => r.db.audit[i].user_id = u

\* C21: every successful RaiseLeave, CancelLeave and EditProfile call appends
\* exactly one audit record of the bound user, a rejected call appends none,
\* and no call changes or removes a record.
C21_MutatingCallsAudited ==
  \A u \in Users :
    /\ \A a \in RaiseArgs : AuditedOnce(db, u, raise_leave_tool(db, u, a[1], a[2], a[3]))
    /\ \A l \in LeaveIds : AuditedOnce(db, u, cancel_leave_tool(db, u, l))
    /\ \A f \in AllFields, v \in Values : AuditedOnce(db, u, edit_profile_tool(db, u, f, v))

\* RaiseLeave called with a start date and a day count, end_date left at its
\* default ""
RaiseLeaveDays ==
  \E u \in Users, s \in Dates, n \in DaysArgs :
    LET r == raise_leave_tool(db, u, s, NoDate, n)
    IN /\ Room(r)
       /\ db' = r.db
       /\ last' = Called("RaiseLeave", u, 0, r)
       /\ UNCHANGED <<concvars, agentvars>>

\* RaiseLeave by day count and CancelLeave
NextDays == RaiseLeaveDays \/ CancelLeaveTool
SpecDays == Init /\ [][NextDays]_vars

\* C22: RaiseLeave with no end_date and days = n > 0 is the request from start
\* to start + (n - 1): it has the outcome of the call with that end date, and
\* the leave it creates has that end date and a day count of n; with no
\* end_date and days <= 0 it fails with the argument error, having read and
\* written nothing.
C22_DaysGiveInclusiveEnd ==
  \A u \in Users, s \in Dates, n \in DaysArgs :
    LET r == raise_leave_tool(db, u, s, NoDate, n)
    IN IF n > 0
       THEN /\ r = raise_leave_tool(db, u, s, s + (n - 1), 0)
            /\ r.ok => /\ Len(r.db.leaves) = Len(db.leaves) + 1
                       /\ r.db.leaves[Len(r.db.leaves)] =
                            LeaveRow(u, s, s + (n - 1), n, "PENDING")
       ELSE /\ ~r.ok
            /\ r.err = "Please provide either 'end_date' or a positive 'days' value."
            /\ r.reads = {}
            /\ r.db = db

\* C22 witness: a call with days = 2 created a leave of two days, and a call
\* with days <= 0 is rejected in this state with the argument error.
C22_Witness ==
  /\ last.op = "RaiseLeave" /\ last.ok
  /\ LET row == db.leaves[Len(db.leaves)]
     IN row = LeaveRow(last.uid, row.start_date, row.start_date + 1, 2, "PENDING")
  /\ \E s \in Dates, n \in DaysArgs :
       /\ n <= 0
       /\ raise_leave_tool(db, last.uid, s, NoDate, n).err =
            "Please provide either 'end_date' or a positive 'days' value."

(***************************************************************************)
(* Database failures.  run_write opens a transaction of its own with       *)
(* engine.begin(): a statement that fails is rolled back and its exception *)
(* leaves raise_leave, while the writes made before it are committed.      *)
(***************************************************************************)
\* run_write raises (the connection is lost, the statement fails)
RaiseWriteFails(p) ==
  /\ procs[p].pc \in {"insert", "update", "audit"}
  /\ Failed(p, "OperationalError")
  /\ UNCHANGED <<db, last, agentvars>>

NextFail ==
  \E p \in Procs :
    \/ RaiseBegin(p)
    \/ RaiseCheckBalance(p)
    \/ RaiseCheckOverlap(p)
    \/ RaiseInsert(p)
    \/ RaiseUpdate(p)
    \/ RaiseAudit(p)
    \/ RaiseWriteFails(p)

SpecFail == InitConc /\ [][NextFail]_vars

\* no call of raise_leave is between its first statement and its return
NoCallInProgress == \A p \in Procs : procs[p].pc \in {"idle", "failed", "done"}

\* C23: whenever no raise-leave call is in progress, every leave row added has
\* its audit record and its days in annual_used: each accepted call applied
\* its three writes or none of them, also when a write failed.
C23_RaiseWritesAllOrNone ==
  NoCallInProgress =>
    /\ Len(db.leaves) = Len(SeedLeaves) + Len(db.audit)
    /\ \A u \in Users : db.credit[u].annual_used = ActiveDays(db, u)

(***************************************************************************)
(* rag_tool.py: get_vector_store, the lazily initialized module global     *)
(* _vector_store, called by get_retriever_tool in every build_graph_for.   *)
(* server.chat is a plain def, which the server runs on worker threads, so *)
(* the calls of NumProcs threads interleave; nothing in get_vector_store   *)
(* is guarded by a lock.                                                   *)
(* procs[p] is thread p: n the calls it made, built whether a call of p    *)
(* built a FAISS instance (named p), docs the document collections added   *)
(* to that instance, holds whether _vector_store refers to it, got the     *)
(* instances returned to the calls of p.                                   *)
(***************************************************************************)
\* LABOR_DOCUMENTS_PATH and LABOR_DOCUMENTS_AR_PATH
Collections == {"en", "ar"}

IdleVector == [pc |-> "idle", n |-> 0, built |-> FALSE, docs |-> {}, holds |-> FALSE,
               got |-> {}]

\* the instance _vector_store refers to
Held == {p \in Procs : procs[p].holds}

\* get_vector_store is called: if _vector_store is None
VectorCheck(p) ==
  /\ procs[p].pc \in {"idle", "done"}
  /\ procs[p].n < MaxRequests
  /\ procs' = [procs EXCEPT ![p].n = @ + 1,
                            ![p].pc = IF vector_store THEN "return" ELSE "init"]
  /\ UNCHANGED <<db, last, agentvars>>

\* initialize_embeddings raises ValueError, or the embedding request fails
VectorInitFails(p) ==
  /\ procs[p].pc = "init"
  /\ procs' = [procs EXCEPT ![p].pc = "done"]
  /\ UNCHANGED <<db, last, agentvars>>

\* initialize_vector_store: a new FAISS instance, to which the collections
\* whose file exists are added
VectorBuild(p) ==
  /\ procs[p].pc = "init"
  /\ \E found \in SUBSET Collections :
       procs' = [procs EXCEPT ![p].pc = "assign", ![p].built = TRUE, ![p].docs = found]
  /\ UNCHANGED <<db, last, agentvars>>

\* _vector_store = initialize_vector_store(_embeddings)
VectorAssign(p) ==
  /\ procs[p].pc = "assign"
  /\ vector_store' = TRUE
  /\ procs' = [q \in Procs |->
       [procs[q] EXCEPT !.holds = (q = p), !.pc = IF q = p THEN "return" ELSE @]]
  /\ UNCHANGED <<db, last, store, run, reply>>

\* return _vector_store
VectorReturn(p) ==
  /\ procs[p].pc = "return"
  /\ procs' = [procs EXCEPT ![p].pc = "done", ![p].got = @ \cup Held]
  /\ UNCHANGED <<db, last, agentvars>>

InitVector ==
  /\ db = SeedDB(TRUE)
  /\ last = NoCall
  /\ procs = [p \in Procs |-> IdleVector]
  /\ store = [t \in ThreadKeys |-> <<>>]
  /\ run = IdleRun
  /\ reply = NoReply
  /\ vector_store = FALSE

NextVector ==
  \E p \in Procs :
    \/ VectorCheck(p)
    \/ VectorInitFails(p)
    \/ VectorBuild(p)
    \/ VectorAssign(p)
    \/ VectorReturn(p)

SpecVector == InitVector /\ [][NextVector]_vars

\* C24: over all calls of get_vector_store of all threads at most one vector
\* store instance is built and every call returns that instance.
C24_VectorStoreBuiltOnce ==
  /\ Cardinality({p \in Procs : procs[p].built}) <= 1
  /\ Cardinality(UNION {procs[p].got : p \in Procs}) <= 1

(***************************************************************************)
(* src/agent/agent.py: the graph of call_agent (start -> agent -> tools -> *)
(* agent), with the one tool fetch_local_site.  It has no checkpointer;    *)
(* in this specification run is the graph run: the node to run next and    *)
(* State["messages"].                                                      *)
(***************************************************************************)
\* the path argument of fetch_local_site
Paths == {"", "employees"}

\* a tool call of the assistant; id is set when the message is emitted
SiteCall(path) == [id |-> 0, name |-> "fetch_local_site", path |-> path]

\* the tool_calls of one assistant message: none, one call or two calls
SiteBatches ==
  {<<>>} \cup {<<SiteCall(a)>> : a \in Paths} \cup
  {<<SiteCall(a), SiteCall(b)>> : a \in Paths, b \in Paths}

\* what llm.invoke may answer: response_metadata["finish_reason"] and tool_calls
SiteOutputs(messages) ==
  {[kind |-> "ai", finish_reason |-> f,
    tool_calls |-> Numbered(b, Len(messages) + 1)] :
     f \in {"stop", "tool_calls"}, b \in SiteBatches}

\* ToolMessage(content=result, name=tool_name, tool_call_id=tool_call_id)
SiteToolMessage(content, name, id) ==
  [kind |-> "tool", content |-> content, name |-> name, tool_call_id |-> id]

\* fetch_local_site: the text of the page at the path
fetch_local_site(path) == <<"html", path>>

\* route_after_agent
route_after_agent(last_msg) ==
  IF last_msg.finish_reason = "stop" THEN "end"
  ELSE IF last_msg.tool_calls # <<>> THEN "tools"
  ELSE "end"

\* bound of the model: assistant turns of one run
MaxTurns == 2

AgentTurns(messages) ==
  Cardinality({i \in 1..Len(messages) : messages[i].kind = "ai"})

SiteIdle == [pc |-> "start", messages |-> <<>>]

\* start_node: the system message and the user input
SiteStart ==
  /\ run.pc = "start"
  /\ run' = [pc |-> "agent",
             messages |-> <<[kind |-> "system"], [kind |-> "human"]>>]
  /\ UNCHANGED <<db, last, procs, store, reply, vector_store>>

\* agent_node appends the response; route_after_agent picks the next node
SiteAgent ==
  /\ run.pc = "agent"
  /\ AgentTurns(run.messages) < MaxTurns
  /\ \E response \in SiteOutputs(run.messages) :
       run' = [pc |-> route_after_agent(response),
               messages |-> Append(run.messages, response)]
  /\ UNCHANGED <<db, last, procs, store, reply, vector_store>>

\* tool_node_with_id: tool_calls[0] of the last message is run with
\* fetch_local_site and answered
SiteTools ==
  /\ run.pc = "tools"
  /\ LET last_ai == run.messages[Len(run.messages)]
         tool_call == last_ai.tool_calls[1]
     IN run' = [pc |-> "agent",
                messages |-> Append(run.messages,
                   SiteToolMessage(fetch_local_site(tool_call.path),
                                   tool_call.name, tool_call.id))]
  /\ UNCHANGED <<db, last, procs, store, reply, vector_store>>

\* requests.get or raise_for_status raises: the exception leaves graph.invoke
SiteToolRaises ==
  /\ run.pc = "tools"
  /\ run' = [run EXCEPT !.pc = "raised"]
  /\ UNCHANGED <<db, last, procs, store, reply, vector_store>>

InitSite ==
  /\ db = SeedDB(TRUE)
  /\ last = NoCall
  /\ procs = [p \in Procs |-> IdleProc]
  /\ store = [t \in ThreadKeys |-> <<>>]
  /\ run = SiteIdle
  /\ reply = NoReply
  /\ vector_store = FALSE

NextSite == SiteStart \/ SiteAgent \/ SiteTools \/ SiteToolRaises

SpecSite == InitSite /\ [][NextSite]_vars

\* the ToolMessages after position i that carry the id and the name of call c
SiteAnswers(messages, i, c) ==
  {j \in (i + 1)..Len(messages) :
     /\ messages[j].kind = "tool"
     /\ messages[j].tool_call_id = c.id
     /\ messages[j].name = c.name
     /\ messages[j].content = fetch_local_site(c.path)}

\* C25: when the agent node is to run, every tool call of every assistant
\* message has been run under its name and answered by exactly one ToolMessage
\* with its id, for messages with one call and with several.
C25_EveryToolCallAnswered ==
  run.pc = "agent" =>
    \A i \in 1..Len(run.messages) :
      run.messages[i].kind = "ai" =>
        \A k \in 1..Len(run.messages[i].tool_calls) :
          Cardinality(SiteAnswers(run.messages, i, run.messages[i].tool_calls[k])) = 1

(***************************************************************************)
(* agent_respond called directly, as get_agent_answer of                   *)
(* rag_evaluation/agent_answers.py does: the caller passes user_id and     *)
(* thread_id, and thread_id, when given, is the key of the checkpointer.   *)
(***************************************************************************)
\* thread_id arguments: None, a thread id of process_questions
\* ("question_<i>_<time>"), a thread id as server.chat builds it for user 1
CallerThreadIds == {<<>>, <<"question_1">>, chat_thread_id(1, <<>>)}

\* the keys these calls store a transcript under
RespondKeys == {thread_key(t, u) : t \in CallerThreadIds, u \in Users}

\* agent_respond(text, user_id, thread_id) up to the first node of the graph;
\* the text of the request names the user it is made for
Respond ==
  /\ run.pc \in {"idle", "replied", "raised"}
  /\ run.n < MaxRequests
  /\ \E uid \in Users, thread_id \in CallerThreadIds :
       LET t == thread_key(thread_id, uid)
           r == [IdleRun EXCEPT !.n = run.n + 1, !.name = Username(uid), !.uid = uid]
       IN \/ /\ ~vector_store
             /\ run' = [r EXCEPT !.pc = "raised"]
             /\ UNCHANGED <<store, vector_store>>
          \/ /\ vector_store' = TRUE
             /\ store' = [store EXCEPT ![t] =
                  @ \o <<SystemMessage, HumanMessage(Text(Username(uid), <<>>))>>]
             /\ run' = [r EXCEPT !.pc = "planner", !.thread = t, !.before = store[t]]
  /\ reply' = NoReply
  /\ UNCHANGED <<db, last, concvars>>

InitRespond ==
  /\ db = SeedDB(TRUE)
  /\ last = NoCall
  /\ procs = [p \in Procs |-> IdleProc]
  /\ store = [t \in RespondKeys |-> <<>>]
  /\ run = IdleRun
  /\ reply = NoReply
  /\ vector_store = FALSE

NextRespond ==
  \/ Respond
  \/ PlannerAnswers
  \/ PlannerRaises
  \/ ReturnReply

SpecRespond == InitRespond /\ [][NextRespond]_vars

\* C26: no stored transcript holds turns of two users, so that no call of
\* agent_respond resumes turns written for a user other than its own: calls
\* with different user ids run under different session-store keys, whatever
\* thread_id they are given.
C26_TranscriptsNotShared ==
  \A t \in DOMAIN store :
    \A i, j \in HumanTurns(store[t]) : store[t][i].content = store[t][j].content

(***************************************************************************)
(* Properties of sequences of leave operations.                            *)
(***************************************************************************)
\* RaiseLeave and CancelLeave, one call at a time
NextLeaves == RaiseLeaveTool \/ CancelLeaveTool
SpecLeaves == Init /\ [][NextLeaves]_vars

\* the days of a leave, first and last included
DaysOf(row) == {day \in 0..(MaxDay + MaxAudit + 2) :
                  row.start_date <= day /\ day <= row.end_date}

\* the PENDING and APPROVED leaves of u
ActiveLeaves(D, u) ==
  {i \in Ids(D) : D.leaves[i].user_id = u /\ D.leaves[i].status \in {"PENDING", "APPROVED"}}

\* C27: no two PENDING or APPROVED leaves of the same user share a day.
C27_NoActiveOverlap ==
  \A u \in Users :
    \A i, j \in ActiveLeaves(db, u) :
      i # j => DaysOf(db.leaves[i]) \cap DaysOf(db.leaves[j]) = {}

\* C27 witness: RaiseLeave succeeded for a user who has another active leave,
\* on days of a leave the user had cancelled before.
C27_Witness ==
  /\ last.op = "RaiseLeave" /\ last.ok
  /\ Cardinality(ActiveLeaves(db, last.uid)) >= 2
  /\ \E i \in Ids(db) :
       /\ db.leaves[i].user_id = last.uid
       /\ db.leaves[i].status = "CANCELLED"
       /\ DaysOf(db.leaves[i]) \cap DaysOf(db.leaves[Len(db.leaves)]) # {}

\* C28: for every user with a leave_credits row, annual_used equals the total
\* days of the user's PENDING and APPROVED leaves, after any sequence of
\* RaiseLeave calls, CancelLeave calls and REST leave creations.
C28_UsedEqualsActiveDays ==
  \A u \in Users : db.credit[u].has => db.credit[u].annual_used = ActiveDays(db, u)

(***************************************************************************)
(* Concurrent calls of cancel_leave: as in raise_leave, the select and     *)
(* each of the three writes runs on a connection and in a transaction of   *)
(* its own, so the statements of NumProcs calls interleave.                *)
(* procs[p] is call p: the identity and leave_id it was called with and    *)
(* the days its select returned.                                           *)
(***************************************************************************)
IdleCancel == [pc |-> "idle", uid |-> 0, lid |-> 0, days |-> 0, err |-> ""]

\* cancel_leave is called: run_select on leaves and the two checks
CancelSelect(p) ==
  /\ procs[p].pc = "idle"
  /\ \E u \in Users, l \in Ids(db) :
       LET row == select_leave(db, u, l)
           c == [IdleCancel EXCEPT !.uid = u, !.lid = l]
       IN procs' = [procs EXCEPT ![p] =
            IF row = {}
              THEN [c EXCEPT !.pc = "failed", !.err = "Leave not found."]
            ELSE IF \E i \in row : NotCancellable(db.leaves[i].status)
              THEN [c EXCEPT !.pc = "failed",
                             !.err = "Only pending/approved leaves can be cancelled (demo)."]
            ELSE [c EXCEPT !.pc = "status",
                           !.days = db.leaves[CHOOSE i \in row : TRUE].days]]
  /\ UNCHANGED <<db, last, agentvars>>

\* run_write: UPDATE leaves SET status = 'CANCELLED'
CancelSetStatus(p) ==
  /\ procs[p].pc = "status"
  /\ db' = set_cancelled(db, procs[p].uid, procs[p].lid)
  /\ Goto(p, "restore")
  /\ UNCHANGED <<last, agentvars>>

\* run_write: UPDATE leave_credits SET annual_used = GREATEST(annual_used - :d, 0)
CancelRestore(p) ==
  /\ procs[p].pc = "restore"
  /\ db' = restore_used(db, procs[p].uid, procs[p].days)
  /\ Goto(p, "audit")
  /\ UNCHANGED <<last, agentvars>>

\* run_write: INSERT INTO audit_log, and return {"ok": True}
CancelAudit(p) ==
  /\ procs[p].pc = "audit"
  /\ db' = insert_audit(db, procs[p].uid, "CANCEL_LEAVE")
  /\ Goto(p, "done")
  /\ UNCHANGED <<last, agentvars>>

\* the seed data after RaiseLeave of user 1 for day 2: user 1 has two active
\* leaves of one day each and annual_used = 2
InitCancel ==
  /\ db = raise_leave(SeedDB(TRUE), [user_id |-> 1, start_date |-> 2, end_date |-> 2]).db
  /\ last = NoCall
  /\ procs = [p \in Procs |-> IdleCancel]
  /\ store = [t \in ThreadKeys |-> <<>>]
  /\ run = IdleRun
  /\ reply = NoReply
  /\ vector_store = FALSE

NextCancel ==
  \E p \in Procs :
    \/ CancelSelect(p)
    \/ CancelSetStatus(p)
    \/ CancelRestore(p)
    \/ CancelAudit(p)

SpecCancel == InitCancel /\ [][NextCancel]_vars

\* C29: of the concurrent CancelLeave calls for one leave at most one reports
\* success, and the days of a cancelled leave are subtracted at most once:
\* annual_used never falls below the days of the user's active leaves.
C29_ConcurrentCancelOnce ==
  /\ \A l \in Ids(db) :
       Cardinality({p \in Procs : procs[p].pc = "done" /\ procs[p].lid = l}) <= 1
  /\ \A u \in Users : db.credit[u].annual_used >= ActiveDays(db, u)

(***************************************************************************)
(* eval/metrics.py: the sequence-aware tool metrics.  A score is kept as   *)
(* the fraction <<numerator, denominator>> the code divides out; it is 1.0 *)
(* exactly when the two are equal.                                         *)
(***************************************************************************)
\* bound of the model: tools in a predicted or expected sequence
MaxSeqLen == 2

\* normalized tool names
ToolNames == {"readdb", "raiseleave", "cancelleave"}
ToolSeqs == UNION {[1..n -> ToolNames] : n \in 0..MaxSeqLen}

\* _lcs_len, the body of the loops: dp[i+1][j+1] from dp[i][j], dp[i][j+1]
\* and dp[i+1][j]
lcs_cell(a, b, i, j, diag, up, left) ==
  IF a[i] = b[j] THEN diag + 1 ELSE Max(up, left)

\* dp[i][j] of _lcs_len
RECURSIVE lcs_dp(_, _, _, _)
lcs_dp(a, b, i, j) ==
  IF i = 0 \/ j = 0 THEN 0
  ELSE lcs_cell(a, b, i, j, lcs_dp(a, b, i - 1, j - 1), lcs_dp(a, b, i - 1, j),
                lcs_dp(a, b, i, j - 1))

lcs_len(a, b) == lcs_dp(a, b, Len(a), Len(b))

One == <<1, 1>>
Zero == <<0, 1>>
IsZero(x) == x[1] = 0
IsOne(x) == x[1] = x[2]

\* (2 * precision * recall) / (precision + recall)
HarmonicMean(p, r) == <<2 * p[1] * r[1], p[1] * r[2] + r[1] * p[2]>>

\* _seq_prf
seq_prf(pred_seq, gold_seq) ==
  LET tp == lcs_len(pred_seq, gold_seq)
      fp == Max(Len(pred_seq) - tp, 0)
      fn == Max(Len(gold_seq) - tp, 0)
      precision == IF tp + fp # 0 THEN <<tp, tp + fp>>
                   ELSE IF pred_seq = <<>> /\ gold_seq = <<>> THEN One ELSE Zero
      recall == IF tp + fn # 0 THEN <<tp, tp + fn>> ELSE One
      f1 == IF ~(IsZero(precision) /\ IsZero(recall))
            THEN HarmonicMean(precision, recall) ELSE One
  IN [precision |-> precision, recall |-> recall, f1 |-> f1,
      tp |-> tp, fp |-> fp, fn |-> fn]

\* a traced run and its example: the executed tools and expected_tool_names
Example(pred_seq, gold_seq) ==
  [op |-> "example", pred |-> pred_seq, gold |-> gold_seq, score |-> Zero]

\* the evaluator is given the next run
NextExample ==
  /\ last.op = "tool_f1"
  /\ \E p \in ToolSeqs, g \in ToolSeqs : last' = Example(p, g)
  /\ UNCHANGED <<db, concvars, agentvars>>

\* ToolSeqF1.evaluate_run: score = f1 of _seq_prf(pred_seq, gold_seq)
ToolSeqF1 ==
  /\ last.op = "example"
  /\ last' = [last EXCEPT !.op = "tool_f1", !.score = seq_prf(last.pred, last.gold).f1]
  /\ UNCHANGED <<db, concvars, agentvars>>

InitMetrics ==
  /\ db = SeedDB(TRUE)
  /\ \E p \in ToolSeqs, g \in ToolSeqs : last = Example(p, g)
  /\ procs = [p \in Procs |-> IdleProc]
  /\ store = [t \in ThreadKeys |-> <<>>]
  /\ run = IdleRun
  /\ reply = NoReply
  /\ vector_store = FALSE

NextMetrics == ToolSeqF1 \/ NextExample

SpecMetrics == InitMetrics /\ [][NextMetrics]_vars

\* C30: the F1 score is 1.0 only when the predicted sequence equals the gold
\* sequence; every other prediction scores below 1.0.
C30_F1OneOnlyWhenEqual ==
  last.op = "tool_f1" => (IsOne(last.score) => last.pred = last.gold)

====
